---------------------------- MODULE Spec2Model ----------------------------
(***************************************************************************)
(* Model of the letter archive crawler: app/parsers.py (ParserBase,        *)
(* LetterIdsParser, LetterParser, Parser.parse_letters) over the letter    *)
(* store of app/db/crud.py (create_letter, get_letters_count,              *)
(* get_letter_by_id) and the table of app/db/models.py.                    *)
(*                                                                         *)
(* A run is one invocation of Parser.parse_letters on a fresh Parser, as   *)
(* app/main.py scheduled_parsing makes it.  Every await of the coroutine   *)
(* is a step of the run; the detail fetches that asyncio.gather starts are *)
(* tasks with steps of their own.                                          *)
(***************************************************************************)
EXTENDS Integers, Sequences, FiniteSets, Bags, TLC

(***************************************************************************)
(* Bounds of the model.                                                    *)
(***************************************************************************)
\* longest archive (number of anchors over all listing pages) of Init
MaxArchive == 4
\* largest letters_count of Init
MaxCount == 3
\* the chunk_size values (anchors per listing page) of Init
ChunkSizes == {2, 3}
\* number of anchors of the one listing page of InitFanOut, above Semaphore
FanOutIds == 6
\* largest number of elements of the listing page of InitListing
MaxListing == 3

\* the runs: Parser instances made by scheduled_parsing
Runs == {1, 2}

\* letter identifiers of the small archives, in the order AllIds lists them
AllIds == <<"a", "b", "c", "d", "e", "f", "g", "h">>
Ids == {"a", "b", "c"}

(***************************************************************************)
(* Program constants.                                                      *)
(***************************************************************************)
\* asyncio.Semaphore(5)
Semaphore == 5
\* stop_after_attempt(3)
StopAfterAttempt == 3

(***************************************************************************)
(* Values.                                                                 *)
(***************************************************************************)
None == [kind |-> "None"]
Raised(exc) == [kind |-> "raise", exc |-> exc]
Html(body) == [kind |-> "html", body |-> body]

Min(x, y) == IF x < y THEN x ELSE y
Max(x, y) == IF x > y THEN x ELSE y
Range(s) == {s[i] : i \in 1..Len(s)}

\* Python's s[:n] for n >= 0
Take(s, n) == SubSeq(s, 1, Min(Len(s), n))

(***************************************************************************)
(* Text of the date paragraph, as a sequence of characters.                *)
(***************************************************************************)
Digits == {"0", "1", "2", "3", "4", "5", "6", "7", "8", "9"}
DigitVal(c) ==
    CASE c = "0" -> 0 [] c = "1" -> 1 [] c = "2" -> 2 [] c = "3" -> 3
      [] c = "4" -> 4 [] c = "5" -> 5 [] c = "6" -> 6 [] c = "7" -> 7
      [] c = "8" -> 8 [] c = "9" -> 9

\* the characters str.strip() removes
Whitespace == {" ", "\n"}

RECURSIVE StripLeft(_)
StripLeft(s) == IF s # <<>> /\ Head(s) \in Whitespace THEN StripLeft(Tail(s)) ELSE s
RECURSIVE StripRight(_)
StripRight(s) ==
    IF s # <<>> /\ s[Len(s)] \in Whitespace
    THEN StripRight(SubSeq(s, 1, Len(s) - 1)) ELSE s
\* str.strip()
Strip(s) == StripRight(StripLeft(s))

RECURSIVE Number(_)
\* the decimal value of a sequence of digits
Number(s) == IF s = <<>> THEN 0 ELSE 10 * Number(SubSeq(s, 1, Len(s) - 1)) + DigitVal(s[Len(s)])

\* re.fullmatch(r"\d{2}\.\d{2}\.\d{2,4}", s)
DatePatternMatch(s) ==
    /\ Len(s) \in 8..10
    /\ \A i \in {1, 2, 4, 5} \cup (7..Len(s)) : s[i] \in Digits
    /\ s[3] = "." /\ s[6] = "."

SentinelDate == <<"0", "1", ".", "0", "1", ".", "1", "9", "7", "0">>

IsLeap(y) == (y % 4 = 0 /\ y % 100 # 0) \/ y % 400 = 0
DaysIn(m, y) ==
    IF m = 2 THEN (IF IsLeap(y) THEN 29 ELSE 28)
    ELSE IF m \in {4, 6, 9, 11} THEN 30 ELSE 31

\* datetime.strptime(s, "%d.%m.%Y") of a text that matches the date pattern:
\* %Y takes exactly four digits, %d 01..31, %m 01..12, and the date must exist
Strptime(s) ==
    LET d == Number(SubSeq(s, 1, 2))
        m == Number(SubSeq(s, 4, 5))
        y == Number(SubSeq(s, 7, Len(s)))
    IN  IF /\ Len(s) = 10
           /\ m \in 1..12
           /\ y >= 1
           /\ d >= 1 /\ d <= DaysIn(m, y)
        THEN [kind |-> "date", day |-> d, month |-> m, year |-> y]
        ELSE Raised("ValueError")

(***************************************************************************)
(* The site: listing pages of anchors and one detail page per letter.      *)
(***************************************************************************)
\* an element of a listing: its tag, its class, and its data-letter_id
\* attribute when it has one
Link(tag, class, has_id, id) ==
    [tag |-> tag, class |-> class, has_id |-> has_id, letter_id |-> id]

\* <a class="js-open_letter" data-letter_id="id">
Anchor(id) == Link("a", "js-open_letter", TRUE, id)

\* the listing of the letters with these identifiers
Listing(ids) == [i \in 1..Len(ids) |-> Anchor(ids[i])]

\* what a listing page may hold: anchors of letters, an anchor with an empty
\* identifier and one with none, an anchor of another class, an element of
\* the class that is no anchor
Links ==
    {Anchor("a"), Anchor("b"), Anchor(""), Link("a", "js-open_letter", FALSE, ""),
     Link("a", "page-link", TRUE, "c"), Link("div", "js-open_letter", TRUE, "c")}

\* the listing the server renders for ...&page=<page>&per=<chunk>
ListingHtml(arch, page, chunk) ==
    SubSeq(arch, (page - 1) * chunk + 1, Min(page * chunk, Len(arch)))

GoodDate == <<"1", "5", ".", "0", "5", ".", "2", "0", "2", "5">>
Div(nodes) == [tag |-> "div", class |-> "text", span |-> "", nodes |-> nodes]

\* <p>text</p>
P(text) == [tag |-> "p", class |-> "", span |-> "", nodes |-> <<text>>]

\* <p><span>label</span>value</p>
Line(label, value) == [tag |-> "p", class |-> "", span |-> label, nodes |-> <<value>>]

\* the labels of the markers: "От кого:", "Откуда:", "Кому:", "Куда:", each one
\* character of the texts of the model
AuthorLabel == "Ot kogo:"
SenderLabel == "Otkuda:"
RecipientLabel == "Komu:"
DestinationLabel == "Kuda:"

\* the four labelled lines of the page of tests/conftest.py
FixtureLines ==
    <<Line(AuthorLabel, <<" ", "Author", " ", "id">>),
      Line(SenderLabel, <<" ", "Sender", " ", "id">>),
      Line(RecipientLabel, <<" ", "Recipient", " ", "id">>),
      Line(DestinationLabel, <<" ", "Destination", " ", "id">>)>>

\* detail pages: whether <div class="b-letter-text"> is there, and its child
\* elements in document order
Page(elements) == [container |-> TRUE, elements |-> elements]

\* the page of tests/conftest.py letter_html
PageGood == Page(<<P(GoodDate)>> \o FixtureLines \o <<Div(<<<<"T">>>>)>>)
PageNoContainer == [container |-> FALSE, elements |-> <<>>]
PageNoParagraph == Page(<<Div(<<<<"T">>>>)>>)
PageShortYear ==
    Page(<<P(<<"1", "5", ".", "0", "5", ".", "2", "5">>), Div(<<<<"T">>>>)>>)
PageWordDate == Page(<<P(<<" ", "M", "a", "y">>), Div(<<<<"T">>>>)>>)
PageNoText == Page(<<P(GoodDate)>> \o FixtureLines)

DetailPages ==
    {PageGood, PageNoContainer, PageNoParagraph, PageShortYear, PageWordDate, PageNoText}

\* a labelled line left out, with a blank value, and with a padded value
LineOptions(label) ==
    {<<>>, <<Line(label, <<" ">>)>>, <<Line(label, <<" ", "V", " ", "W", " ">>)>>}

\* pages with every choice of the four labelled lines
FieldPages ==
    {Page(<<P(GoodDate)>> \o author \o sender \o recipient \o destination
              \o <<Div(<<<<"T">>>>)>>) :
        author \in LineOptions(AuthorLabel), sender \in LineOptions(SenderLabel),
        recipient \in LineOptions(RecipientLabel),
        destination \in LineOptions(DestinationLabel)}

\* first paragraphs: dates with a year of 4, 3 and 2 digits, a padded date, a
\* day that no month has, the 29th of February of a common year, a word,
\* nothing
DateTexts ==
    {GoodDate,
     <<"1", "5", ".", "0", "5", ".", "2", "0", "2">>,
     <<"1", "5", ".", "0", "5", ".", "2", "5">>,
     <<" ", "1", "5", ".", "0", "5", ".", "2", "0", "2", "5", "\n">>,
     <<"3", "2", ".", "0", "1", ".", "2", "0", "2", "5">>,
     <<"2", "9", ".", "0", "2", ".", "2", "0", "2", "5">>,
     <<" ", "M", "a", "y">>,
     <<>>}

\* what may stand where the text block is expected
TextBlocks == {<<>>, <<Div(<<<<"T">>>>)>>, <<Div(<<<<" ">>, <<"\n">>>>)>>, <<Div(<<>>)>>}

\* pages with every choice of first paragraph and text block, with and
\* without the labelled lines
DatePages ==
    {Page(first \o lines \o block) :
        first \in {<<P(date)>> : date \in DateTexts} \cup {<<>>},
        lines \in {<<>>, FixtureLines},
        block \in TextBlocks}

ExtractPages == FieldPages \cup DatePages \cup {PageNoContainer}

(***************************************************************************)
(* ParserBase.get_html under its tenacity decorator, and ParserBase.parse. *)
(***************************************************************************)
\* the body of get_html without its except clause
GetHtmlBodyRaising(navOk, content) ==
    IF navOk THEN Html(content) ELSE Raised("PlaywrightError")

\* the body of get_html for one attempt: navOk says whether start_browser,
\* new_page, goto and content all returned; any Exception is caught
GetHtmlBody(navOk, content) == IF navOk THEN Html(content) ELSE None

\* the outcomes a navigation may have: any, or good only without outages
NavOutcomes(may_fail) == IF may_fail THEN BOOLEAN ELSE {TRUE}

RECURSIVE Retrying(_, _, _)
\* @retry(retry_if_exception_type(Exception), stop_after_attempt(3),
\* reraise=True): the body is called again only when it raised, and the
\* exception of the last attempt is raised again.  made holds the outcomes of
\* the navigations of the attempts made so far; the value is the set of the
\* ways the call can end.
Retrying(may_fail, content, made) ==
    UNION {LET res == GetHtmlBody(ok, content)
               navs == Append(made, ok)
           IN  IF res.kind = "raise" /\ Len(navs) < StopAfterAttempt
               THEN Retrying(may_fail, content, navs)
               ELSE {[result |-> res, navs |-> navs]}
           : ok \in NavOutcomes(may_fail)}

\* the ways one call of get_html can end: its result and the navigations made
get_html(may_fail, content) == Retrying(may_fail, content, <<>>)

\* ParserBase.parse: an exception of get_html propagates, no html is None
parse(html) ==
    IF html.kind = "raise" THEN html
    ELSE IF html.kind = "None" THEN None
    ELSE [kind |-> "soup", body |-> html.body]

\* ParserBase.start_browser within one get_html call: the number of browsers
\* the call launched.  unset says that the call found self.browser unset; a
\* call whose navigation succeeded has launched its browser, a failed call
\* failed in the launch or after it
StartBrowser(unset, call) ==
    IF ~unset THEN {0}
    ELSE IF \E k \in DOMAIN call.navs : call.navs[k] THEN {1}
    ELSE {0, 1}

\* the pages one get_html call opened with browser.new_page() and did not
\* close: page.close() is reached when goto and content returned.  A call
\* fails in the launch of its browser, before any page, or in the navigation
\* (goto, content) of the page it opened, and the except clause closes nothing
LeftOpen(unset, launched, call) ==
    IF \E k \in DOMAIN call.navs : call.navs[k] THEN {0}
    ELSE IF unset /\ launched = 0 THEN {0}
    ELSE {1}

(***************************************************************************)
(* LetterIdsParser.get_letter_ids                                          *)
(***************************************************************************)
\* the identifier of every element, whatever it is
LinkIdsOfAll(links) == [i \in 1..Len(links) |-> links[i].letter_id]

RECURSIVE LinkIds(_)
\* find_all("a", class_="js-open_letter") and the list comprehension that
\* keeps the truthy data-letter_id values
LinkIds(links) ==
    IF links = <<>> THEN <<>>
    ELSE LET link == Head(links)
         IN  (IF /\ link.tag = "a" /\ link.class = "js-open_letter"
                 /\ link.has_id /\ link.letter_id # ""
              THEN <<link.letter_id>> ELSE <<>>) \o LinkIds(Tail(links))

get_letter_ids(soup) ==
    IF soup.kind = "raise" THEN soup
    ELSE IF soup.kind = "None" THEN [kind |-> "ids", ids |-> <<>>]
    ELSE [kind |-> "ids", ids |-> LinkIds(soup.body)]

(***************************************************************************)
(* LetterParser.get_letter_data                                            *)
(***************************************************************************)
RECURSIVE JoinNl(_)
\* get_text(separator="\n") of the text nodes
JoinNl(nodes) ==
    IF nodes = <<>> THEN <<>>
    ELSE IF Len(nodes) = 1 THEN nodes[1]
    ELSE nodes[1] \o <<"\n">> \o JoinNl(Tail(nodes))

RECURSIVE Join(_, _)
\* separator.join(strings)
Join(strings, separator) ==
    IF strings = <<>> THEN <<>>
    ELSE IF Len(strings) = 1 THEN strings[1]
    ELSE strings[1] \o separator \o Join(Tail(strings), separator)

\* the strings of an element in document order: the label of its span, then
\* its text nodes
Strings(element) ==
    (IF element.span # "" THEN <<<<element.span>>>> ELSE <<>>) \o element.nodes

\* Tag.text
Text(element) == Join(Strings(element), <<>>)

\* Tag.get_text(separator, strip=True): every string stripped, the empty ones
\* left out
GetTextStripped(element, separator) ==
    Join(SelectSeq([i \in 1..Len(Strings(element)) |-> Strip(Strings(element)[i])],
                   LAMBDA string : string # <<>>),
         separator)

\* str.replace(label, "")
Replace(text, label) == SelectSeq(text, LAMBDA c : c # label)

Unknown == <<"u", "n", "k", "n", "o", "w", "n">>

LetterUrl(letter_id) == <<"#letter-", letter_id>>

\* a field whose marker is there taken as it is, however empty
FieldAsFound(elements, label, separator) ==
    LET line == SelectSeq(elements, LAMBDA element : element.span = label)
    IN  IF line = <<>> THEN Unknown
        ELSE Strip(Replace(GetTextStripped(line[1], separator), label))

\* author, sender, recipient, destination: find("span", string=label), and
\* parent.get_text(...).replace(label, "").strip() or "unknown"
Field(elements, label, separator) ==
    LET line == SelectSeq(elements, LAMBDA element : element.span = label)
    IN  IF line = <<>> THEN Unknown
        ELSE LET value == Strip(Replace(GetTextStripped(line[1], separator), label))
             IN  IF value # <<>> THEN value ELSE Unknown

get_letter_data(letter_id, soup) ==
    IF soup.kind = "raise" THEN soup
    ELSE IF soup.kind = "None" THEN None
    ELSE IF ~soup.body.container THEN None
    ELSE LET letter_div == soup.body.elements
             paragraphs == SelectSeq(letter_div, LAMBDA element : element.tag = "p")
             blocks == SelectSeq(letter_div,
                           LAMBDA element : element.tag = "div" /\ element.class = "text")
         IN  IF paragraphs = <<>> THEN Raised("IndexError")
             ELSE LET raw_date == Strip(Text(paragraphs[1]))
                      date == IF DatePatternMatch(raw_date) THEN raw_date ELSE SentinelDate
                  IN  IF blocks = <<>> THEN None
                      ELSE LET raw_text == Strip(JoinNl(blocks[1].nodes))
                               text == IF raw_text # <<>> THEN raw_text ELSE Unknown
                               parsed == Strptime(date)
                           IN  IF parsed.kind = "raise" THEN parsed
                               ELSE [kind |-> "letter", id |-> letter_id,
                                     date |-> parsed,
                                     author |-> Field(letter_div, AuthorLabel, <<" ">>),
                                     text |-> text,
                                     url |-> LetterUrl(letter_id),
                                     sender |-> Field(letter_div, SenderLabel, <<>>),
                                     destination |->
                                         Field(letter_div, DestinationLabel, <<" ">>),
                                     recipient |->
                                         Field(letter_div, RecipientLabel, <<" ">>)]

(***************************************************************************)
(* The letter store: the rows of table "letters" (app/db/models.py), and   *)
(* the queries of app/db/crud.py.                                          *)
(***************************************************************************)
\* rows with this primary key
RowsOf(rows, id) == {row \in BagToSet(rows) : row.id = id}

\* select(func.count()).select_from(LetterData)
CountRows(rows) == BagCardinality(rows)

\* a query that finds no row
SelectNothing(rows, id) == None

\* select(LetterData).filter(LetterData.id == letter_id) ... first()
SelectById(rows, id) ==
    IF RowsOf(rows, id) = {} THEN None ELSE CHOOSE row \in RowsOf(rows, id) : TRUE

\* a table without the primary key
PrimaryKeyAbsent(rows, id) == TRUE

\* id = Column(String, primary_key=True): an INSERT of a present key fails
PrimaryKeyFree(rows, id) == RowsOf(rows, id) = {}

\* a commit that stores nothing
InsertRowLost(rows, row) == rows

\* a commit that stores the row once more than asked
InsertRowTwice(rows, row) == rows (+) SetToBag({row}) (+) SetToBag({row})

\* session.add(new_letter); session.commit()
InsertRow(rows, row) == rows (+) SetToBag({row})

(***************************************************************************)
(* Parser.parse_letters, lines 332-334                                     *)
(***************************************************************************)
\* the slice taken by the number of known letters instead of the free slots
TruncateToKnown(ids, count, total) == Take(ids, total)

\* the listing left as it came
TruncateNothing(ids, count, total) == ids

\* a window of one identifier more than the free slots
TruncateOneMore(ids, count, total) == Take(ids, count - total + 1)

Truncate(ids, count, total) ==
    IF count + Len(ids) > total THEN Take(ids, count - total) ELSE ids

(***************************************************************************)
(* State.                                                                  *)
(***************************************************************************)
VARIABLES
    archive,        \* the anchors of the site's listing, newest first
    site,           \* per letter id, the detail pages the site may serve for it
    chunk_size,     \* LetterIdsParser.chunk_size
    letters_count,  \* config.LETTERS_COUNT, Parser.letters_count
    outages,        \* whether a navigation of the browser may fail
    invocations,    \* how many times the trigger calls scheduled_parsing
    letters,        \* the rows of table "letters", a bag
    pc,             \* per run, the await parse_letters is at
    error,          \* per run, the exception that left parse_letters
    page,           \* per run, local page
    total_parsed,   \* per run, local total_parsed
    page_ids,       \* per run, what get_letter_ids returned for this page
    letter_ids,     \* per run, local letter_ids after truncation
    new_letter_ids, \* per run, local new_letter_ids
    idx,            \* per run, position of the for loop in progress
    semaphore,      \* per run, the value of the asyncio.Semaphore
    tasks,          \* per run, the fetch_letter tasks given to gather
    results,        \* per run, local results
    listed,         \* per run, the listing pages requested so far
    list_call,      \* per run, the last get_html call of the listing fetcher
    ops,            \* per run, the numbers of calls issued so far
    snapshot,       \* per run, the rows of the store when the run started
    browser,        \* per run and fetcher, the browsers start_browser launched
    released,       \* per run and fetcher, the browsers shutdown closed
    returned,       \* per run, whether scheduled_parsing came back from shutdown
    left_open       \* per run, the pages get_html calls opened and did not close

env == <<archive, site, chunk_size, letters_count, outages, invocations>>
locals == <<pc, error, page, total_parsed, page_ids, letter_ids, new_letter_ids,
            idx, semaphore, tasks, results>>
ghosts == <<listed, list_call, ops, snapshot>>
sessions == <<browser, released, returned, left_open>>
vars == <<env, letters, locals, ghosts, sessions>>

NoCall == [result |-> None, navs |-> <<>>]

\* ParserBase.__init__ of the two fetchers of a Parser: self.browser = None
NoBrowser == [letter_ids_parser |-> 0, letter_parser |-> 0]
NoOps == [listing |-> 0, query |-> 0, detail |-> 0, create |-> 0]

\* the row an earlier run stored for a letter
StoredLetter(id) == get_letter_data(id, parse(Html(PageGood)))

IdIndex(id) == CHOOSE i \in 1..Len(AllIds) : AllIds[i] = id

\* sequences over S of length at most n
SeqsUpTo(S, n) == UNION {[1..k -> S] : k \in 0..n}

\* the identifiers of an archive are named in the order they first appear
FirstOccurrenceOrder(s) ==
    \A i \in 1..Len(s) :
        \/ IdIndex(s[i]) = 1
        \/ \E j \in 1..(i - 1) : IdIndex(s[j]) >= IdIndex(s[i]) - 1

InitWith(archives, pages, chunks, counts, stores, nets, calls) ==
    /\ archive \in archives
    /\ site = [id \in {archive[i].letter_id : i \in DOMAIN archive} |-> pages]
    /\ chunk_size \in chunks
    /\ letters_count \in counts
    /\ outages \in nets
    /\ invocations \in calls
    /\ \E known \in stores : letters = SetToBag({StoredLetter(id) : id \in known})
    /\ pc = [r \in Runs |-> "idle"]
    /\ error = [r \in Runs |-> "none"]
    /\ page = [r \in Runs |-> 1]
    /\ total_parsed = [r \in Runs |-> 0]
    /\ page_ids = [r \in Runs |-> <<>>]
    /\ letter_ids = [r \in Runs |-> <<>>]
    /\ new_letter_ids = [r \in Runs |-> <<>>]
    /\ idx = [r \in Runs |-> 1]
    /\ semaphore = [r \in Runs |-> Semaphore]
    /\ tasks = [r \in Runs |-> <<>>]
    /\ results = [r \in Runs |-> <<>>]
    /\ listed = [r \in Runs |-> <<>>]
    /\ list_call = [r \in Runs |-> NoCall]
    /\ ops = [r \in Runs |-> NoOps]
    /\ snapshot = [r \in Runs |-> EmptyBag]
    /\ browser = [r \in Runs |-> NoBrowser]
    /\ released = [r \in Runs |-> NoBrowser]
    /\ returned = [r \in Runs |-> FALSE]
    /\ left_open = [r \in Runs |-> 0]

Init ==
    InitWith({Listing(s) : s \in {t \in SeqsUpTo(Ids, MaxArchive) : FirstOccurrenceOrder(t)}},
             DetailPages, ChunkSizes, 0..MaxCount, SUBSET Ids, {TRUE}, {1})

\* two invocations, a site that answers every navigation
InitTwice ==
    InitWith({Listing(s) : s \in {t \in SeqsUpTo(Ids, MaxArchive) : FirstOccurrenceOrder(t)}},
             {PageGood, PageNoText, PageShortYear}, ChunkSizes, 0..MaxCount,
             SUBSET Ids, {FALSE}, {2})

\* two invocations on short archives, an identifier listed twice included
InitOverlap ==
    InitWith({Listing(s) : s \in {t \in SeqsUpTo(Ids, 2) : FirstOccurrenceOrder(t)}},
             {PageGood, PageNoText}, {2}, 1..MaxCount, {{}, {"a"}}, {FALSE}, {2})

\* one invocation on a listing page of more new identifiers than the
\* semaphore admits
InitFanOut ==
    InitWith({Listing(SubSeq(AllIds, 1, FanOutIds))}, {PageGood, PageNoText, PageNoParagraph},
             {FanOutIds}, {2, FanOutIds}, {{}}, {TRUE}, {1})

\* one invocation on a listing of one identifier, whose detail page is any
\* page of ExtractPages
InitExtract ==
    InitWith({Listing(<<"a">>)}, ExtractPages, {2}, {1}, {{}}, {FALSE}, {1})

\* one invocation from an empty store on a site that answers every
\* navigation with a page that gives a record
InitHarvest ==
    InitWith({Listing(s) : s \in {t \in SeqsUpTo(Ids, MaxArchive) : FirstOccurrenceOrder(t)}},
             {PageGood, PageWordDate}, ChunkSizes, 1..MaxCount, {{}}, {FALSE}, {1})

\* one invocation on a listing of any elements
InitListing ==
    InitWith(SeqsUpTo(Links, MaxListing), {PageGood}, {MaxListing}, {2}, {{}}, {FALSE}, {1})

(***************************************************************************)
(* Steps of a run.                                                         *)
(***************************************************************************)
Ended(r) == pc[r] \in {"done", "failed"}

\* the exception logged and the coroutine going on
PropagateSwallowed(r, exc) ==
    /\ pc' = pc
    /\ error' = [error EXCEPT ![r] = exc]

\* an exception leaves parse_letters: create_letter, get_letters_count and
\* get_letter_by_id log it and raise it again, parse_letters has no handler
Propagate(r, exc) ==
    /\ pc' = [pc EXCEPT ![r] = "failed"]
    /\ error' = [error EXCEPT ![r] = exc]

Bump(r, field) == ops' = [ops EXCEPT ![r][field] = @ + 1]

\* the loop going on after an empty listing
AfterListingNoBreak(ids) == "check"

\* if not letter_ids: break
AfterListing(ids) == IF ids = <<>> THEN "done" ELSE "check"

\* while total_parsed < self.letters_count
LoopTest(total) == IF total < letters_count THEN "list" ELSE "done"

\* scheduled_parsing: Parser(config.URL, letters_count=config.LETTERS_COUNT)
\* and the call of parse_letters; runs are numbered in the order they start
Start(r) ==
    /\ pc[r] = "idle"
    /\ r <= invocations
    /\ \A q \in Runs : q < r => pc[q] # "idle"
    /\ pc' = [pc EXCEPT ![r] = "count"]
    /\ snapshot' = [snapshot EXCEPT ![r] = letters]
    /\ UNCHANGED <<env, letters, error, page, total_parsed, page_ids, letter_ids,
                   new_letter_ids, idx, semaphore, tasks, results, listed,
                   list_call, ops, sessions>>

\* scheduled_parsing is over: it came back from shutdown, or the exception of
\* parse_letters left it
JobEnded(r) == returned[r] \/ pc[r] = "failed"

\* main: the first run is awaited; a later run starts when the earlier ones ended
StartAlone(r) ==
    /\ \A q \in Runs \ {r} : pc[q] = "idle" \/ JobEnded(q)
    /\ Start(r)

\* total_parsed = await get_letters_count()   (line 318)
CountFirst(r) ==
    /\ pc[r] = "count"
    /\ \/ /\ Propagate(r, "SQLAlchemyError")
          /\ UNCHANGED total_parsed
       \/ /\ total_parsed' = [total_parsed EXCEPT ![r] = CountRows(letters)]
          /\ pc' = [pc EXCEPT ![r] = LoopTest(CountRows(letters))]
          /\ UNCHANGED error
    /\ UNCHANGED <<env, letters, page, page_ids, letter_ids, new_letter_ids, idx,
                   semaphore, tasks, results, ghosts, sessions>>

\* set_page(page); letter_ids = await get_letter_ids(); the break on an empty
\* list; the truncation to the remaining slots   (lines 323-336)
ListPage(r) ==
    /\ pc[r] = "list"
    /\ \E call \in get_html(outages, ListingHtml(archive, page[r], chunk_size)) :
         LET got == get_letter_ids(parse(call.result))
         IN  /\ list_call' = [list_call EXCEPT ![r] = call]
             /\ \E n \in StartBrowser(browser[r].letter_ids_parser = 0, call) :
                  \E m \in LeftOpen(browser[r].letter_ids_parser = 0, n, call) :
                    /\ browser' = [browser EXCEPT ![r].letter_ids_parser = @ + n]
                    /\ left_open' = [left_open EXCEPT ![r] = @ + m]
             /\ IF got.kind = "raise"
                THEN /\ Propagate(r, got.exc)
                     /\ UNCHANGED <<page_ids, letter_ids, new_letter_ids, idx>>
                ELSE /\ page_ids' = [page_ids EXCEPT ![r] = got.ids]
                     /\ letter_ids' = [letter_ids EXCEPT ![r] =
                            IF got.ids = <<>> THEN <<>>
                            ELSE Truncate(got.ids, letters_count, total_parsed[r])]
                     /\ new_letter_ids' = [new_letter_ids EXCEPT ![r] = <<>>]
                     /\ idx' = [idx EXCEPT ![r] = 1]
                     /\ pc' = [pc EXCEPT ![r] = AfterListing(got.ids)]
                     /\ UNCHANGED error
    /\ listed' = [listed EXCEPT ![r] = Append(@, page[r])]
    /\ Bump(r, "listing")
    /\ UNCHANGED <<env, letters, page, total_parsed, semaphore, tasks, results,
                   snapshot, released, returned>>

\* if await get_letter_by_id(letter_id) is None: new_letter_ids.append(letter_id)
\* (lines 337-341), one identifier a step
CheckKnown(r) ==
    /\ pc[r] = "check"
    /\ idx[r] <= Len(letter_ids[r])
    /\ \/ /\ Propagate(r, "SQLAlchemyError")
          /\ UNCHANGED <<new_letter_ids, idx>>
       \/ /\ new_letter_ids' = [new_letter_ids EXCEPT ![r] =
                 IF SelectById(letters, letter_ids[r][idx[r]]) = None
                 THEN Append(@, letter_ids[r][idx[r]]) ELSE @]
          /\ idx' = [idx EXCEPT ![r] = @ + 1]
          /\ UNCHANGED <<pc, error>>
    /\ Bump(r, "query")
    /\ UNCHANGED <<env, letters, page, total_parsed, page_ids, letter_ids, semaphore,
                   tasks, results, listed, list_call, snapshot, sessions>>

\* a fetch_letter coroutine; launch says whether its start_browser found
\* self.browser unset and went on to launch one
NewTask(id) ==
    [id |-> id, st |-> "waiting", res |-> None, call |-> NoCall, launch |-> FALSE]

\* a semaphore that never blocks
AdmitsAlways(value) == TRUE

\* the semaphore admits a task while its value is positive
Admits(value) == value > 0

RECURSIVE AdmitWaiting(_, _)
\* async with semaphore: the waiting tasks enter in the order gather was
\* given them, each taking one unit, until the semaphore admits no more
AdmitWaiting(ts, value) ==
    LET waiting == {i \in DOMAIN ts : ts[i].st = "waiting"}
    IN  IF waiting = {} \/ ~Admits(value) THEN [tasks |-> ts, value |-> value]
        ELSE LET i == CHOOSE j \in waiting : \A k \in waiting : j <= k
             IN  AdmitWaiting([ts EXCEPT ![i].st = "running"], value - 1)

Running(ts) == {i \in DOMAIN ts : ts[i].st = "running"}

\* the tasks that entered the semaphore run on to `if not self.browser` of
\* start_browser and stop at its first await, or at the await of new_page
Entered(after, before, unset) ==
    [i \in DOMAIN after |->
        IF after[i].st = "running" /\ before[i].st = "waiting"
        THEN [after[i] EXCEPT !.launch = unset] ELSE after[i]]

\* tasks = [fetch_letter(letter_id) for letter_id in new_letter_ids] and the
\* call of asyncio.gather: every task runs up to its first suspension, in the
\* semaphore or in the fetch   (lines 360-364)
Spawn(r) ==
    /\ pc[r] = "check"
    /\ idx[r] > Len(letter_ids[r])
    /\ LET new == [i \in 1..Len(new_letter_ids[r]) |-> NewTask(new_letter_ids[r][i])]
           adm == AdmitWaiting(new, semaphore[r])
       IN  /\ tasks' = [tasks EXCEPT ![r] =
                          Entered(adm.tasks, new, browser[r].letter_parser = 0)]
           /\ semaphore' = [semaphore EXCEPT ![r] = adm.value]
           /\ ops' = [ops EXCEPT ![r].detail = @ + Cardinality(Running(adm.tasks))]
    /\ pc' = [pc EXCEPT ![r] = "gather"]
    /\ UNCHANGED <<env, letters, error, page, total_parsed, page_ids, letter_ids,
                   new_letter_ids, idx, results, listed, list_call, snapshot, sessions>>

\* return await self.letter_parser.get_letter_data(letter_id); leaving the
\* semaphore, which lets the next waiter in; gather handing the first
\* exception to parse_letters while the other tasks run on   (lines 361, 364)
TaskFetch(r, i) ==
    /\ i \in DOMAIN tasks[r]
    /\ tasks[r][i].st = "running"
    /\ \E content \in site[tasks[r][i].id] : \E call \in get_html(outages, content) :
         \E n \in StartBrowser(tasks[r][i].launch, call) :
         \E m \in LeftOpen(tasks[r][i].launch, n, call) :
         LET res == get_letter_data(tasks[r][i].id, parse(call.result))
             left == [tasks[r] EXCEPT ![i] =
                         [@ EXCEPT !.st = "done", !.res = res, !.call = call]]
             adm == AdmitWaiting(left, semaphore[r] + 1)
         IN  /\ browser' = [browser EXCEPT ![r].letter_parser = @ + n]
             /\ left_open' = [left_open EXCEPT ![r] = @ + m]
             /\ tasks' = [tasks EXCEPT ![r] =
                            Entered(adm.tasks, left, browser[r].letter_parser + n = 0)]
             /\ semaphore' = [semaphore EXCEPT ![r] = adm.value]
             /\ ops' = [ops EXCEPT ![r].detail =
                          @ + Cardinality(Running(adm.tasks) \ Running(tasks[r]))]
             /\ site' = IF call.result.kind = "html"
                        THEN [site EXCEPT ![tasks[r][i].id] = {content}]
                        ELSE site
             /\ IF res.kind = "raise" /\ pc[r] = "gather"
                THEN Propagate(r, res.exc)
                ELSE UNCHANGED <<pc, error>>
    /\ UNCHANGED <<archive, chunk_size, letters_count, outages, invocations, letters,
                   page, total_parsed, page_ids, letter_ids, new_letter_ids, idx,
                   results, listed, list_call, snapshot, released, returned>>

\* the fetch of any task in flight returns
Fetching(r) == \E i \in DOMAIN tasks[r] : TaskFetch(r, i)

\* a gather that comes back with the first task that returns
GatherReturnsAtFirst(ts) == ts = <<>> \/ \E i \in DOMAIN ts : ts[i].st = "done"

\* asyncio.gather(*tasks) returns its list when every awaitable has returned
GatherReturns(ts) == \A i \in DOMAIN ts : ts[i].st = "done"

\* results = await asyncio.gather(*tasks) once every task has returned
Gathered(r) ==
    /\ pc[r] = "gather"
    /\ GatherReturns(tasks[r])
    /\ results' = [results EXCEPT ![r] = [i \in DOMAIN tasks[r] |-> tasks[r][i].res]]
    /\ idx' = [idx EXCEPT ![r] = 1]
    /\ pc' = [pc EXCEPT ![r] = "persist"]
    /\ UNCHANGED <<env, letters, error, page, total_parsed, page_ids, letter_ids,
                   new_letter_ids, semaphore, tasks, ghosts, sessions>>

\* for letter in results: if letter is not None: await create_letter(letter);
\* create_letter up to its SELECT   (parsers.py 366-368, crud.py 30-40)
CreateSelect(r) ==
    /\ pc[r] = "persist"
    /\ idx[r] <= Len(results[r])
    /\ IF results[r][idx[r]] = None
       THEN /\ idx' = [idx EXCEPT ![r] = @ + 1]
            /\ UNCHANGED <<pc, error, ops>>
       ELSE /\ Bump(r, "create")
            /\ \/ /\ Propagate(r, "SQLAlchemyError")
                  /\ UNCHANGED idx
               \/ /\ SelectById(letters, results[r][idx[r]].id) # None
                  /\ idx' = [idx EXCEPT ![r] = @ + 1]
                  /\ UNCHANGED <<pc, error>>
               \/ /\ SelectById(letters, results[r][idx[r]].id) = None
                  /\ pc' = [pc EXCEPT ![r] = "insert"]
                  /\ UNCHANGED <<idx, error>>
    /\ UNCHANGED <<env, letters, page, total_parsed, page_ids, letter_ids,
                   new_letter_ids, semaphore, tasks, results, listed, list_call,
                   snapshot, sessions>>

\* a failure that takes back what the run stored since it started
FailedCommitUndoesRun(rows, before) == before

\* except SQLAlchemyError: log and raise.  The session of the failed call is
\* left, the commits of the earlier create_letter calls stand
FailedCommit(rows, before) == rows

\* create_letter: session.add(new_letter); await session.commit(); a failing
\* commit, a taken primary key included, raises SQLAlchemyError   (crud.py 42-50)
CreateInsert(r) ==
    /\ pc[r] = "insert"
    /\ \/ /\ Propagate(r, IF PrimaryKeyFree(letters, results[r][idx[r]].id)
                          THEN "SQLAlchemyError" ELSE "IntegrityError")
          /\ letters' = FailedCommit(letters, snapshot[r])
          /\ UNCHANGED idx
       \/ /\ PrimaryKeyFree(letters, results[r][idx[r]].id)
          /\ letters' = InsertRow(letters, results[r][idx[r]])
          /\ idx' = [idx EXCEPT ![r] = @ + 1]
          /\ pc' = [pc EXCEPT ![r] = "persist"]
          /\ UNCHANGED error
    /\ UNCHANGED <<env, page, total_parsed, page_ids, letter_ids, new_letter_ids,
                   semaphore, tasks, results, ghosts, sessions>>

\* a page left out
NextPageSkipping(p) == p + 2

\* page += 1
NextPage(p) == p + 1

\* known kept by the run itself: one more for every record handed to
\* create_letter
RecountedLocally(total, got, rows) ==
    total + Cardinality({i \in DOMAIN got : got[i] # None})

\* total_parsed = await get_letters_count(): the count of the rows the store
\* holds now, whatever the run knew and whatever it got
Recounted(total, got, rows) == CountRows(rows)

\* page += 1; total_parsed = await get_letters_count(); the loop test
\* (lines 370-371, 321)
Recount(r) ==
    /\ pc[r] = "persist"
    /\ idx[r] > Len(results[r])
    /\ page' = [page EXCEPT ![r] = NextPage(@)]
    /\ \/ /\ Propagate(r, "SQLAlchemyError")
          /\ UNCHANGED total_parsed
       \/ /\ total_parsed' = [total_parsed EXCEPT ![r] =
                                 Recounted(total_parsed[r], results[r], letters)]
          /\ pc' = [pc EXCEPT ![r] =
                       LoopTest(Recounted(total_parsed[r], results[r], letters))]
          /\ UNCHANGED error
    /\ UNCHANGED <<env, letters, page_ids, letter_ids, new_letter_ids, idx, semaphore,
                   tasks, results, ghosts, sessions>>

\* ParserBase.shutdown: if self.browser: await self.browser.close() closes the
\* browser the attribute holds, the one assigned last
Close(launched) == IF launched > 0 THEN 1 ELSE 0

\* scheduled_parsing after parse_letters returned: await parser.shutdown(),
\* which shuts the listing fetcher and the detail fetcher down
Shutdown(r) ==
    /\ pc[r] = "done"
    /\ ~returned[r]
    /\ released' = [released EXCEPT ![r] =
                       [letter_ids_parser |-> Close(browser[r].letter_ids_parser),
                        letter_parser |-> Close(browser[r].letter_parser)]]
    /\ returned' = [returned EXCEPT ![r] = TRUE]
    /\ UNCHANGED <<env, letters, locals, ghosts, browser, left_open>>

Step(r) ==
    \/ CountFirst(r)
    \/ ListPage(r)
    \/ CheckKnown(r)
    \/ Spawn(r)
    \/ Fetching(r)
    \/ Gathered(r)
    \/ CreateSelect(r)
    \/ CreateInsert(r)
    \/ Recount(r)
    \/ Shutdown(r)

\* runs one after the other
Next == \E r \in Runs : StartAlone(r) \/ Step(r)

\* a run may start while an earlier one is under way (main.py: the interval
\* job creates a task whatever the earlier task does)
NextOverlap == \E r \in Runs : Start(r) \/ Step(r)

\* one invocation
Spec == Init /\ [][Next]_vars
\* two invocations, one after the other
SpecTwice == InitTwice /\ [][Next]_vars
\* two invocations that may overlap
SpecOverlap == InitOverlap /\ [][NextOverlap]_vars
\* one invocation with more new identifiers on a page than the semaphore admits
SpecFanOut == InitFanOut /\ [][Next]_vars
\* one invocation that extracts one detail page
SpecExtract == InitExtract /\ [][Next]_vars
\* one invocation from an empty store, every detail page giving a record
SpecHarvest == InitHarvest /\ [][Next]_vars
\* one invocation on a listing page of any elements
SpecListing == InitListing /\ [][Next]_vars

(***************************************************************************)
(* Properties.                                                             *)
(***************************************************************************)
StoreErrors == {"SQLAlchemyError", "IntegrityError"}
StoredIds(rows) == {row.id : row \in BagToSet(rows)}
Last(s) == s[Len(s)]

\* a get_html call that was made and whose last navigation failed
FetchFailed(call) == call.navs # <<>> /\ ~Last(call.navs)

\* the run is inside the iteration of one listing page
InIteration(r) == pc[r] \in {"check", "gather", "persist", "insert"}

C2_Scenario ==
    /\ StoredIds(snapshot[1]) = {"a", "b"}
    /\ page_ids[1] = <<"a", "b", "c">>
    /\ letters_count = 3
    /\ page[1] = 1

\* C2: from a store holding a and b, a listing a, b, c and letters_count 3,
\* the run fetches the detail view of c and of nothing else.
C2_OnlyNewIdFetched ==
    (C2_Scenario /\ pc[1] \in {"gather", "persist", "insert"})
        => [i \in DOMAIN tasks[1] |-> tasks[1][i].id] = <<"c">>

\* rows of the table with this primary key, counted with their copies
CopiesOfId(rows, id) ==
    BagCardinality([row \in RowsOf(rows, id) |-> CopiesIn(row, rows)])

\* C3: the store holds at most one row per id in every state, and a step
\* leaves every row that is stored as it is.
C3_OneRowPerId ==
    [][/\ \A id \in Range(AllIds) : CopiesOfId(letters', id) <= 1
       /\ \A row \in BagToSet(letters) : CopiesIn(row, letters') = CopiesIn(row, letters)
      ]_vars

\* two overlapping runs both went on to insert the same letter, and the
\* second INSERT was refused
C3_Witness ==
    \E r \in Runs :
        /\ error[r] = "IntegrityError"
        /\ CopiesOfId(letters, results[r][idx[r]].id) = 1

\* the first min(len, letters_count - known) identifiers of the listing
Window(r) ==
    SubSeq(page_ids[r], 1, Min(Len(page_ids[r]), letters_count - total_parsed[r]))

\* C4: inside a page iteration known < letters_count, the identifiers that go
\* to the existence check are the first min(len(ids), letters_count - known)
\* of the listing in document order, and what is fetched and what is
\* persisted is among them.
C4_Truncation ==
    \A r \in Runs :
        InIteration(r) =>
            /\ total_parsed[r] < letters_count
            /\ letter_ids[r] = Window(r)
            /\ Range(new_letter_ids[r]) \subseteq Range(Window(r))
            /\ pc[r] # "check" =>
                   /\ [i \in DOMAIN tasks[r] |-> tasks[r][i].id] = new_letter_ids[r]
                   /\ \A i \in DOMAIN tasks[r] :
                          tasks[r][i].res.kind = "letter" =>
                              tasks[r][i].res.id \in Range(Window(r))
            /\ pc[r] \in {"persist", "insert"} =>
                   \A i \in DOMAIN results[r] :
                       results[r][i].kind = "letter" =>
                           results[r][i].id \in Range(Window(r))

\* a listing of more identifiers than free slots was cut and the letters of
\* the window were fetched
C4_Witness ==
    /\ pc[1] = "persist"
    /\ total_parsed[1] > 0
    /\ Len(page_ids[1]) > Len(letter_ids[1])
    /\ Len(results[1]) = 2

\* the last listing of the run came back empty
EmptyListing(r) == listed[r] # <<>> /\ page_ids[r] = <<>>

\* C5: when get_letter_ids returns an empty list on page k the run ends there
\* without an error, and from then on it requests no listing page and issues
\* no existence query, detail fetch or create.
C5_EmptyListingEndsRun ==
    [][\A r \in Runs :
          /\ EmptyListing(r)' =>
                 /\ pc'[r] = "done"
                 /\ error'[r] = "none"
                 /\ Last(listed'[r]) = page'[r]
          /\ EmptyListing(r) =>
                 /\ ops'[r] = ops[r]
                 /\ listed'[r] = listed[r]
                 /\ tasks'[r] = tasks[r]
      ]_vars

\* a listing fetch failed on a page after the first, below letters_count
C5_Witness ==
    /\ EmptyListing(1)
    /\ page[1] > 1
    /\ total_parsed[1] < letters_count
    /\ FetchFailed(list_call[1])

\* C6: at most 5 detail fetches of a run are in flight.
C6_ConcurrencyBound ==
    \A r \in Runs : Cardinality(Running(tasks[r])) <= Semaphore

\* five fetches are in flight and a sixth task waits for the semaphore
C6_Witness ==
    /\ Cardinality(Running(tasks[1])) = Semaphore
    /\ \E i \in DOMAIN tasks[1] : tasks[1][i].st = "waiting"

\* the get_html calls that have returned
CallsMade ==
    {list_call[r] : r \in Runs}
        \cup UNION {{tasks[r][i].call : i \in DOMAIN tasks[r]} : r \in Runs}

\* C7: a get_html call makes a further attempt after each failed navigation,
\* up to 3 attempts; it returns the HTML when an attempt succeeds and raises
\* when all 3 have failed.
C7_RetriedUpToThreeTimes ==
    \A call \in CallsMade :
        call.navs # <<>> =>
            /\ Len(call.navs) <= StopAfterAttempt
            /\ Last(call.navs) => call.result.kind = "html"
            /\ ~Last(call.navs) =>
                   /\ Len(call.navs) = StopAfterAttempt
                   /\ call.result.kind = "raise"

\* C8: a failed fetch of a listing gives an empty list, a failed fetch of a
\* detail view gives None, and no run ends with an exception of the fetcher.
C8_FetchFailureNotFatal ==
    \A r \in Runs :
        /\ FetchFailed(list_call[r]) => page_ids[r] = <<>> /\ pc[r] = "done"
        /\ \A i \in DOMAIN tasks[r] :
               FetchFailed(tasks[r][i].call) => tasks[r][i].res = None
        /\ error[r] \in StoreErrors \cup {"none", "IndexError", "ValueError"}

\* a detail fetch failed, another letter of the page was stored and the run
\* completed
C8_Witness ==
    /\ pc[1] = "done"
    /\ \E i \in DOMAIN tasks[1] : FetchFailed(tasks[1][i].call)
    /\ letters # snapshot[1]

\* C9: a failure while fetching or extracting one item skips that item only;
\* parse_letters does not abort because of it.
C9_ItemFailureAbsorbed ==
    \A r \in Runs : error[r] \in StoreErrors \cup {"none"}

\* C10: once a store call of a run has raised, the run has left
\* parse_letters with that error and issues no listing fetch, detail fetch,
\* existence query or create any more.
C10_StoreFailureAborts ==
    [][\A r \in Runs :
          /\ error'[r] \in StoreErrors => pc'[r] = "failed"
          /\ error[r] \in StoreErrors =>
                 /\ error'[r] = error[r]
                 /\ listed'[r] = listed[r]
                 /\ ops'[r].listing = ops[r].listing
                 /\ ops'[r].detail = ops[r].detail
                 /\ ops'[r].query = ops[r].query
                 /\ ops'[r].create = ops[r].create
                 /\ tasks'[r] = tasks[r]
      ]_vars

\* create_letter raised for the second letter of a page after the first was
\* stored
C10_Witness ==
    /\ pc[1] = "failed"
    /\ error[1] \in StoreErrors
    /\ ops[1].create = 2
    /\ letters # snapshot[1]

\* the browsers of a fetcher of a run that were launched and not closed
Open(r, f) == browser[r][f] - released[r][f]

\* C11: when an invocation of scheduled_parsing is over, parse_letters having
\* completed or having aborted with a store error, Parser.shutdown has been
\* executed and no browser of the listing fetcher or of the detail fetcher is
\* left open.
C11_ShutdownOnEveryPath ==
    \A r \in Runs :
        (returned[r] \/ (pc[r] = "failed" /\ error[r] \in StoreErrors)) =>
            /\ returned[r]
            /\ Open(r, "letter_ids_parser") = 0
            /\ Open(r, "letter_parser") = 0

\* C12: each fetcher of a run launches its browser at most once, whatever
\* the interleaving of the get_html calls of the fan-out.
C12_SingleLazySession ==
    \A r \in Runs :
        /\ browser[r].letter_ids_parser <= 1
        /\ browser[r].letter_parser <= 1

\* the detail pages that were served to the tasks of a run that have returned,
\* each with what get_letter_data made of it
Extracted(r) ==
    {[page |-> tasks[r][i].call.result.body, res |-> tasks[r][i].res] :
        i \in {j \in DOMAIN tasks[r] :
                  tasks[r][j].st = "done" /\ tasks[r][j].call.result.kind = "html"}}

Paragraphs(doc) == SelectSeq(doc.elements, LAMBDA element : element.tag = "p")
HasTextBlock(doc) ==
    \E k \in DOMAIN doc.elements :
        doc.elements[k].tag = "div" /\ doc.elements[k].class = "text"

\* the trimmed text of the first paragraph of a page
FirstParagraph(doc) == Strip(Text(Paragraphs(doc)[1]))

Epoch == [kind |-> "date", day |-> 1, month |-> 1, year |-> 1970]

\* C13: for a page with the content container and a text block,
\* get_letter_data returns a record whatever the first paragraph is; a first
\* paragraph of the form DD.MM.Y(2-4 digits) gives a date of that day and
\* month, anything else, a missing paragraph included, gives 01.01.1970.
C13_DateFallback ==
    \A r \in Runs : \A e \in Extracted(r) :
        (e.page.container /\ HasTextBlock(e.page)) =>
            /\ e.res.kind = "letter"
            /\ IF Paragraphs(e.page) # <<>> /\ DatePatternMatch(FirstParagraph(e.page))
               THEN /\ e.res.date.day = Number(SubSeq(FirstParagraph(e.page), 1, 2))
                    /\ e.res.date.month = Number(SubSeq(FirstParagraph(e.page), 4, 5))
               ELSE e.res.date = Epoch

\* the value a page gives a label: the trimmed text after the label in the
\* first line that carries it, nothing when no line carries it
Labelled(doc, label) ==
    LET lines == SelectSeq(doc.elements, LAMBDA element : element.span = label)
    IN  IF lines = <<>> THEN <<>> ELSE Strip(lines[1].nodes[1])

OrUnknown(value) == IF value = <<>> THEN Unknown ELSE value

\* C14: in every record get_letter_data returns, each of author, sender,
\* recipient and destination is "unknown" when its marker is absent or its
\* value is blank, and the trimmed value otherwise, whatever the other three
\* fields are.
C14_FieldFallback ==
    \A r \in Runs : \A e \in Extracted(r) :
        e.res.kind = "letter" =>
            /\ e.res.author = OrUnknown(Labelled(e.page, AuthorLabel))
            /\ e.res.sender = OrUnknown(Labelled(e.page, SenderLabel))
            /\ e.res.recipient = OrUnknown(Labelled(e.page, RecipientLabel))
            /\ e.res.destination = OrUnknown(Labelled(e.page, DestinationLabel))

\* a record with an absent author, a blank sender and a recipient with a value
C14_Witness ==
    \E e \in Extracted(1) :
        /\ e.res.kind = "letter"
        /\ Labelled(e.page, AuthorLabel) = <<>>
        /\ e.res.author = Unknown
        /\ \E k \in DOMAIN e.page.elements : e.page.elements[k].span = SenderLabel
        /\ e.res.sender = Unknown
        /\ e.res.recipient = <<"V", " ", "W">>
        /\ pc[1] = "done"

\* C15: a page with the content container and no text block gives None,
\* whatever else it holds, and the run stores nothing for it; a page with the
\* container and a text block is not discarded.
C15_DiscardOnMissingText ==
    \A r \in Runs : \A e \in Extracted(r) :
        e.page.container =>
            /\ ~HasTextBlock(e.page) => (e.res = None /\ letters = snapshot[r])
            /\ HasTextBlock(e.page) => e.res # None

\* the listing page a run requested last
ListedPage(r) == ListingHtml(archive, Last(listed[r]), chunk_size)

\* C16: what get_letter_ids returns for a fetched listing is the sequence of
\* the data-letter_id values of its anchors of class js-open_letter that carry
\* a non-empty identifier, in document order and with repetitions, and
\* nothing else.
C16_IdsInDocumentOrder ==
    \A r \in Runs :
        (listed[r] # <<>> /\ list_call[r].result.kind = "html") =>
            LET kept == SelectSeq(ListedPage(r),
                            LAMBDA link : /\ link.tag = "a"
                                          /\ link.class = "js-open_letter"
                                          /\ link.has_id
                                          /\ link.letter_id # "")
            IN  page_ids[r] = [i \in 1..Len(kept) |-> kept[i].letter_id]

\* a listing of three elements, one of them not a letter anchor, that
\* names one letter twice
C16_Witness ==
    /\ listed[1] # <<>>
    /\ Len(ListedPage(1)) = 3
    /\ page_ids[1] = <<"b", "b">>

\* the identifiers of the first listing page
FirstPageIds == LinkIds(ListingHtml(archive, 1, chunk_size))

\* the case of claim C17: the store was empty when run 1 started and the
\* first listing page names letters_count distinct identifiers (under
\* SpecHarvest every fetch succeeds and every detail page gives a record)
C17_Scenario ==
    /\ snapshot[1] = EmptyBag
    /\ pc[1] # "idle"
    /\ letters_count > 0
    /\ Len(FirstPageIds) = letters_count
    /\ Cardinality(Range(FirstPageIds)) = letters_count

\* what C17 promises of the end of the run: one create_letter per record, the
\* stored identifiers are the listed ones, and the row of each identifier is
\* the record extracted from the detail page the site served for it
C17_Harvested ==
    /\ ops[1].create = letters_count
    /\ StoredIds(letters) = Range(FirstPageIds)
    /\ CountRows(letters) = letters_count
    /\ \A id \in Range(FirstPageIds) : \E content \in site[id] :
           /\ site[id] = {content}
           /\ SelectById(letters, id) = get_letter_data(id, parse(Html(content)))

C18_RunOutcome ==
    \A r \in Runs :
        Ended(r) =>
            \/ /\ pc[r] = "done"
               /\ error[r] = "none"
               /\ total_parsed[r] >= letters_count \/ EmptyListing(r)
            \/ /\ pc[r] = "failed"
               /\ error[r] \in StoreErrors

\* the tasks of a run that have not returned
Pending(r) == {i \in DOMAIN tasks[r] : tasks[r][i].st # "done"}

\* C19: a detail task is pending only while its run waits in gather: none is
\* pending when the run persists, moves to the next page or has ended.
C19_FanOutBarrier ==
    \A r \in Runs : pc[r] # "gather" => Pending(r) = {}

\* C20: the step that ends a page iteration without an error is taken after
\* the last create_letter of the page, sets known to the number of rows the
\* store holds at that moment and tests the loop with it; known changes at no
\* other step of the loop, and the next truncation uses it.
C20_Recount ==
    [][\A r \in Runs :
          /\ (pc[r] = "persist" /\ pc'[r] \in {"list", "done"}) =>
                 /\ idx[r] > Len(results[r])
                 /\ total_parsed'[r] = CountRows(letters)
                 /\ pc'[r] = "list" <=> total_parsed'[r] < letters_count
          /\ ~(pc[r] = "persist" /\ pc'[r] \in {"list", "done"}) /\ pc[r] # "count" =>
                 total_parsed'[r] = total_parsed[r]
          /\ (pc[r] = "list" /\ pc'[r] = "check") =>
                 letter_ids'[r] = Take(page_ids'[r], letters_count - total_parsed[r])
      ]_vars

\* after its first page run 1 knows of more rows than the store held when it
\* started plus the records it handed to create_letter: the rows another run
\* inserted meanwhile are counted
C20_Witness ==
    /\ page[1] = 2
    /\ pc[1] \in {"list", "done"}
    /\ total_parsed[1] > CountRows(snapshot[1]) + ops[1].create

\* C21: the listing pages a run has requested are 1, 2, 3, ... in this
\* order, none skipped and none requested twice, whichever run it is and
\* whatever the run before it did.
C21_PageOrder ==
    \A r \in Runs : \A k \in DOMAIN listed[r] : listed[r][k] = k

\* the first run went on to page 2 and the second run has requested pages
C21_Witness ==
    /\ Len(listed[1]) >= 2
    /\ listed[2] # <<>>
    /\ Head(listed[2]) = 1

\* C22: the step in which a store call of a run raises leaves the store as
\* it is, and while a run is aborted no row is taken out of the store or
\* altered: what create_letter stored before the failure stays.
C22_NoRollback ==
    [][\A r \in Runs :
          (pc'[r] = "failed" /\ error'[r] \in StoreErrors) =>
              \A row \in BagToSet(letters) :
                  CopiesIn(row, letters') = CopiesIn(row, letters)
      ]_vars

\* create_letter raised for the second record of page 2, after it had stored
\* a record of page 1 and the first record of page 2
C22_Witness ==
    /\ pc[1] = "failed"
    /\ error[1] \in StoreErrors
    /\ page[1] = 2
    /\ idx[1] = 2
    /\ Len(results[1]) = 2
    /\ results[1][2] # None
    /\ CountRows(letters) = CountRows(snapshot[1]) + 2

\* C23: whenever no get_html call of a run is in flight, no page that a
\* get_html call of the run opened is open.
C23_TransientPage ==
    \A r \in Runs : Running(tasks[r]) = {} => left_open[r] = 0

\* the identifiers of the tasks of a run, in the order gather was given them
TaskIds(r) == [i \in DOMAIN tasks[r] |-> tasks[r][i].id]

\* C24: in a page iteration every step of the existence check issues one
\* query, for the next identifier of the truncated window, and keeps the
\* identifier exactly when the store holds no row of it at that moment; no
\* query is issued elsewhere; the detail fetches start after the last
\* identifier of the window was queried, for the identifiers kept in this
\* iteration and for no other.
C24_MembershipCheck ==
    [][\A r \in Runs :
          /\ ops'[r].query # ops[r].query =>
                 /\ pc[r] = "check"
                 /\ ops'[r].query = ops[r].query + 1
                 /\ idx[r] \in DOMAIN letter_ids[r]
                 /\ pc'[r] = "check" =>
                        /\ idx'[r] = idx[r] + 1
                        /\ new_letter_ids'[r] =
                               IF letter_ids[r][idx[r]] \in StoredIds(letters)
                               THEN new_letter_ids[r]
                               ELSE Append(new_letter_ids[r], letter_ids[r][idx[r]])
          /\ (pc[r] = "check" /\ idx'[r] # idx[r]) => ops'[r].query = ops[r].query + 1
          /\ (pc[r] = "list" /\ pc'[r] = "check") =>
                 idx'[r] = 1 /\ new_letter_ids'[r] = <<>>
          /\ ops'[r].detail # ops[r].detail => pc'[r] \in {"gather", "failed"}
          /\ (pc[r] = "check" /\ pc'[r] = "gather") =>
                 /\ idx[r] = Len(letter_ids[r]) + 1
                 /\ TaskIds(r)' = new_letter_ids[r]
      ]_vars

\* run 1 found in the store an identifier that was not there when it started:
\* the row another run inserted meanwhile was seen by the query
C24_Witness ==
    /\ pc[1] = "gather"
    /\ \E k \in DOMAIN letter_ids[1] :
           /\ letter_ids[1][k] \notin Range(new_letter_ids[1])
           /\ letter_ids[1][k] \notin StoredIds(snapshot[1])

\* C25: with two runs interleaved on one store, a create_letter for an
\* identifier the other run has inserted is a no-op: no run is aborted by a
\* conflict on the primary key.
C25_SkipIfExistsUnderWriters ==
    \A r \in Runs :
        ~(/\ pc[r] = "failed"
          /\ error[r] = "IntegrityError"
          /\ results[r][idx[r]].id \in StoredIds(letters))

\* C26: a run requests a listing page only from the head of its loop, one
\* page a step, for its current page, and whenever it is about to request a
\* listing no detail fetch of the run is pending and no create_letter of the
\* run is in progress.
C26_ListingSequential ==
    [][\A r \in Runs :
          /\ listed'[r] # listed[r] =>
                 /\ pc[r] = "list"
                 /\ Pending(r) = {}
                 /\ listed'[r] = Append(listed[r], page[r])
          /\ pc'[r] = "list" => Pending(r)' = {}
      ]_vars

\* page 2 was requested after the two detail fetches of page 1 had returned
C26_Witness ==
    /\ listed[1] = <<1, 2>>
    /\ pc[1] = "check"
    /\ Len(tasks[1]) = 2
    /\ Pending(1) = {}

\* C27: all fetches of a run go through one browser session: at most one
\* browser of the run, of its listing fetcher and its detail fetcher
\* together, is open at any time.
C27_OneSessionPerRun ==
    \A r \in Runs : Open(r, "letter_ids_parser") + Open(r, "letter_parser") <= 1

\* C28: once Parser.shutdown has returned, every browser the run launched,
\* in either fetcher and under any interleaving of the detail fetches, has
\* been closed.
C28_ShutdownReleasesAll ==
    \A r \in Runs :
        returned[r] =>
            /\ released[r].letter_ids_parser = browser[r].letter_ids_parser
            /\ released[r].letter_parser = browser[r].letter_parser

\* C29: in a single run the store never holds more rows than the larger of
\* its count at the start of the run and letters_count, and the detail
\* fetches issued for a page are at most letters_count - known.
C29_TargetNotOvershot ==
    pc[1] # "idle" =>
        /\ CountRows(letters) <= Max(CountRows(snapshot[1]), letters_count)
        /\ pc[1] \in {"gather", "persist", "insert"} =>
               Len(tasks[1]) <= letters_count - total_parsed[1]

\* the run filled the store up to letters_count from a listing that named
\* more identifiers than there were free slots
C29_Witness ==
    /\ returned[1]
    /\ CountRows(letters) = letters_count
    /\ CountRows(snapshot[1]) < letters_count
    /\ Len(page_ids[1]) > Len(letter_ids[1])

\* how often an identifier occurs in a sequence of identifiers
Occurrences(ids, id) == Cardinality({k \in DOMAIN ids : ids[k] = id})

\* the positions of two results of the page of run 1 that are records of the
\* same identifier
TwinRecords ==
    {jk \in (DOMAIN results[1]) \X (DOMAIN results[1]) :
        /\ jk[1] < jk[2]
        /\ results[1][jk[1]].kind = "letter"
        /\ results[1][jk[2]].kind = "letter"
        /\ results[1][jk[1]].id = results[1][jk[2]].id}

\* C30: in a single run every occurrence of a new identifier in the
\* truncated window passes the existence check and is fetched; when the for
\* loop over the results of a page is over, an identifier that gave two
\* records was handed to create_letter twice and has exactly one row; the
\* second create_letter raises no key conflict.
C30_DuplicateIdInPage ==
    /\ error[1] # "IntegrityError"
    /\ pc[1] = "gather" =>
           \A id \in Range(letter_ids[1]) \ StoredIds(letters) :
               Occurrences(TaskIds(1), id) = Occurrences(letter_ids[1], id)
    /\ (pc[1] = "persist" /\ idx[1] > Len(results[1])) =>
           \A jk \in TwinRecords :
               /\ CopiesOfId(letters, results[1][jk[1]].id) = 1
               /\ ops[1].create >= 2

\* a window named a new identifier twice, both detail fetches gave a
\* record, and the for loop over the results is over
C30_Witness ==
    /\ pc[1] = "persist"
    /\ idx[1] > Len(results[1])
    /\ TwinRecords # {}
    /\ \E id \in Range(letter_ids[1]) :
           /\ Occurrences(letter_ids[1], id) = 2
           /\ id \notin StoredIds(snapshot[1])
           /\ CopiesOfId(letters, id) = 1

\* the text block of a page that has one
TextBlockOf(doc) ==
    SelectSeq(doc.elements,
              LAMBDA element : element.tag = "div" /\ element.class = "text")[1]

\* a text block with nothing but whitespace in its text nodes, or no text
\* node at all
BlankText(doc) ==
    /\ HasTextBlock(doc)
    /\ \A n \in DOMAIN TextBlockOf(doc).nodes :
           \A c \in DOMAIN TextBlockOf(doc).nodes[n] :
               TextBlockOf(doc).nodes[n][c] \in Whitespace

\* C31: a page with the content container and a text block whose text is
\* empty after trimming gives a record, not None, whose text is "unknown",
\* and a run that completes has stored it; a page with the container is
\* discarded only when its text block is missing.
C31_EmptyTextKept ==
    \A r \in Runs : \A e \in Extracted(r) :
        e.page.container =>
            /\ BlankText(e.page) =>
                   /\ e.res.kind = "letter"
                   /\ e.res.text = Unknown
                   /\ pc[r] = "done" =>
                          \E row \in BagToSet(letters) :
                              row.id = e.res.id /\ row.text = Unknown
            /\ e.res = None => ~HasTextBlock(e.page)
=============================================================================
